---- MODULE Spec2Model ----
(***************************************************************************)
(* Chunked transcription orchestration of the deposition scripts:          *)
(*   - the retry controllers around one HTTP transcription request         *)
(*     (process_depositions.transcribe_audio_chunk,                        *)
(*      process_depositions_eastus2.transcribe,                            *)
(*      retry_teresa_chunks.transcribe_chunk / retry_chunk4_only)          *)
(*   - process_depositions.merge_transcriptions                            *)
(*   - the splitter (split_audio) and the job of one source file           *)
(*     (process_depositions.process_deposition, the per-file loop of       *)
(*      process_depositions_eastus2.main and process_quick.main)           *)
(*   - the batch driver process_depositions.main                           *)
(*   - the retry scripts' update of the record written by                  *)
(*     process_depositions_eastus2.main (retry_teresa_chunks.main,         *)
(*     retry_chunk4_only.main)                                             *)
(*   - the speaker-segmented section of                                    *)
(*     process_depositions.format_text_output                              *)
(***************************************************************************)
EXTENDS Integers, Sequences, FiniteSets, TLC

VARIABLES
    variant,        \* which script's retry controller runs
    pc,             \* position of the controller
    attempt,        \* loop variable / recursion parameter `attempt`
    posts,          \* number of requests.post calls made so far
    sleeps,         \* number of time.sleep(RETRY_DELAY) calls made so far
    last,           \* what the latest attempt met (open failure, exception, response)
    prev,           \* what the attempt before the latest met
    err,            \* how a failure is surfaced to the caller
    accepted,       \* HTTP status of the response returned as the result
    stack,          \* recursive variant: call site of each nested call
    site,           \* recursive variant: call site of the call made after the sleep
    all500,         \* history: every attempt so far met an HTTP 500 response
    allExc,         \* history: every attempt so far met a transport exception
    before500,      \* history: every attempt before the latest met an HTTP 500 response
    opened,         \* history: every attempt so far could open the chunk file
    chunk_results,  \* argument of merge_transcriptions
    merged,         \* value returned by merge_transcriptions
    merged_again,   \* value returned by a second call on the same list
    mpc,            \* position of the merge
    T,              \* true duration of the source file, in seconds
    jpc,            \* position of the job of one source file
    duration,       \* process_deposition's local `duration`
    probe_failed,   \* history: a duration probe of this file failed
    num_chunks,     \* split_audio's num_chunks / num
    wi,             \* split_audio's loop variable i (ffmpeg calls made so far)
    chunk_files,    \* list returned by split_audio: window numbers, -1 = the source file
    ci,             \* 1-based index of the chunk the job is at
    cstate,         \* per chunk: pending, running, Success, Exhausted
    collected,      \* history: chunk index of each entry of the result list
    saved,          \* a record of this file has been written
    throttles,      \* number of time.sleep(DELAY_BETWEEN_CHUNKS) calls
    seg_failed,     \* history: windows whose ffmpeg call returned non-zero
    bpc,            \* position of the batch driver
    audio_files,    \* number of source files the scan found
    idx,            \* number of source files handled so far
    results,        \* process_all_depositions' `results`: success flag per entry
    summary,        \* counts printed by print_summary
    exit_code,      \* value main returns to sys.exit
    rpc,            \* position of the scripts working on one persisted record
    record,         \* the "chunks" list of the persisted record
    runs,           \* number of retry script runs made on the record
    fpc,            \* position of format_text_output
    result_segments,\* result['segments'] given to format_text_output
    fi,             \* number of segments the loop has been through
    current_speaker,\* format_text_output's current_speaker (<<>> for None)
    speaker_text,   \* format_text_output's speaker_text
    blocks          \* the labelled blocks appended to lines so far

retryVars == <<variant, pc, attempt, posts, sleeps, last, prev, err, accepted,
               stack, site, all500, allExc, before500, opened>>
mergeVars == <<chunk_results, merged, merged_again, mpc>>
jobVars == <<T, jpc, duration, probe_failed, num_chunks, wi, chunk_files, ci,
             cstate, collected, saved, throttles, seg_failed>>
batchVars == <<bpc, audio_files, idx, results, summary, exit_code>>
recordVars == <<rpc, record, runs>>
formatVars == <<fpc, result_segments, fi, current_speaker, speaker_text, blocks>>
vars == <<retryVars, mergeVars, jobVars, batchVars, recordVars, formatVars>>

----------------------------------------------------------------------------
(* Program constants *)

PD_MAX_RETRIES == 3
EASTUS2_MAX_RETRIES == 3
TERESA_MAX_RETRIES == 5
CHUNK_DURATION_SECONDS == 1400
MAX_DURATION_SECONDS == 1500
EASTUS2_CHUNK_DURATION == 300
QUICK_CHUNK_DURATION == 600

----------------------------------------------------------------------------
(* Retry controllers *)

Variants == {"pd", "eastus2", "rec"}

\* MAX_RETRIES of each script
MaxRetries(v) ==
    CASE v = "pd" -> PD_MAX_RETRIES
      [] v = "eastus2" -> EASTUS2_MAX_RETRIES
      [] v = "rec" -> TERESA_MAX_RETRIES

\* HTTP statuses the service may answer with
Statuses == {200, 201, 304, 400, 401, 413, 500, 503}

\* What one attempt can meet: the chunk file cannot be opened (or, in
\* process_depositions, get_auth_headers raises) before anything is sent,
\* requests.post raises, or a response arrives whose body is JSON or is not.
NoOutcome == [kind |-> "none", status |-> 0, body |-> "none"]
Outcomes ==
    {[kind |-> "open_fail", status |-> 0, body |-> "none"],
     [kind |-> "exception", status |-> 0, body |-> "none"]}
    \cup [kind : {"response"}, status : Statuses, body : {"json", "nonjson"}]

\* requests.Response.raise_for_status raises HTTPError for 4xx and 5xx only
RaiseForStatus(status) == status >= 400 /\ status < 600

\* Mutant of PdTry: a 500 goes to raise_for_status() at once, leaving the retry
\* to the HTTPError handler
PdTryRaiseOn500(a, o) ==
    IF o.kind \in {"open_fail", "exception"} THEN "Exception"
    ELSE IF o.status = 500 THEN
        IF o.body = "nonjson" THEN "Exception"
        ELSE "HTTPError"
    ELSE IF o.status /= 200 /\ o.body = "nonjson" THEN "Exception"
    ELSE IF o.status /= 200 /\ RaiseForStatus(o.status) THEN "HTTPError"
    ELSE IF o.body = "nonjson" THEN "Exception"
    ELSE "return"

\* Mutant of PdTry: the retry budget test is off by one (attempt <= MAX_RETRIES)
PdTryBudgetOffByOne(a, o) ==
    IF o.kind \in {"open_fail", "exception"} THEN "Exception"
    ELSE IF o.status = 500 THEN
        IF o.body = "nonjson" THEN "Exception"
        ELSE IF a <= PD_MAX_RETRIES THEN "sleep"
        ELSE "HTTPError"
    ELSE IF o.status /= 200 /\ o.body = "nonjson" THEN "Exception"
    ELSE IF o.status /= 200 /\ RaiseForStatus(o.status) THEN "HTTPError"
    ELSE IF o.body = "nonjson" THEN "Exception"
    ELSE "return"

\* process_depositions.transcribe_audio_chunk: what the body of the try
\* statement does on one iteration: "return", "sleep" (sleep and continue),
\* or the exception class it raises.
PdTry(a, o) ==
    IF o.kind \in {"open_fail", "exception"} THEN "Exception"
    ELSE IF o.status = 500 THEN
        IF o.body = "nonjson" THEN "Exception"              \* response.json() raises
        ELSE IF a < PD_MAX_RETRIES THEN "sleep"
        ELSE "HTTPError"                                    \* raise_for_status()
    ELSE IF o.status /= 200 /\ o.body = "nonjson" THEN "Exception"
    ELSE IF o.status /= 200 /\ RaiseForStatus(o.status) THEN "HTTPError"
    ELSE IF o.body = "nonjson" THEN "Exception"             \* result = response.json()
    ELSE "return"

\* Mutant of PdStep: the generic handler re-raises instead of retrying
PdStepNoExceptionRetry(a, o) ==
    LET r == PdTry(a, o) IN
    CASE r = "return" -> [next |-> "Success", err |-> "none", site |-> "none"]
      [] r = "sleep" -> [next |-> "Sleep", err |-> "none", site |-> "none"]
      [] r = "HTTPError" ->
            IF a < PD_MAX_RETRIES /\ o.status = 500
            THEN [next |-> "Continue", err |-> "none", site |-> "none"]
            ELSE [next |-> "Exhausted", err |-> "HTTPError", site |-> "none"]
      [] r = "Exception" -> [next |-> "Exhausted", err |-> "Exception", site |-> "none"]

\* process_depositions.transcribe_audio_chunk: one iteration with its handlers
PdStep(a, o) ==
    LET r == PdTry(a, o) IN
    CASE r = "return" -> [next |-> "Success", err |-> "none", site |-> "none"]
      [] r = "sleep" -> [next |-> "Sleep", err |-> "none", site |-> "none"]
      [] r = "HTTPError" ->
            IF a < PD_MAX_RETRIES /\ o.status = 500
            THEN [next |-> "Continue", err |-> "none", site |-> "none"]
            ELSE [next |-> "Exhausted", err |-> "HTTPError", site |-> "none"]
      [] r = "Exception" ->
            IF a < PD_MAX_RETRIES
            THEN [next |-> "Sleep", err |-> "none", site |-> "none"]
            ELSE [next |-> "Exhausted", err |-> "Exception", site |-> "none"]

\* Mutant of Eastus2Step: a 500 is reported at once instead of being retried
Eastus2StepNo500Retry(a, o) ==
    IF o.kind \in {"open_fail", "exception"}
       \/ (o.status = 200 /\ o.body = "nonjson")
    THEN IF a < EASTUS2_MAX_RETRIES
         THEN [next |-> "Sleep", err |-> "none", site |-> "none"]
         ELSE [next |-> "Exhausted", err |-> "None", site |-> "none"]
    ELSE IF o.status /= 200 THEN [next |-> "Exhausted", err |-> "None", site |-> "none"]
    ELSE [next |-> "Success", err |-> "none", site |-> "none"]

\* process_depositions_eastus2.transcribe: one iteration with its handler
Eastus2Step(a, o) ==
    IF o.kind \in {"open_fail", "exception"}
       \/ (o.status = 200 /\ o.body = "nonjson")
    THEN IF a < EASTUS2_MAX_RETRIES
         THEN [next |-> "Sleep", err |-> "none", site |-> "none"]
         ELSE [next |-> "Exhausted", err |-> "None", site |-> "none"]
    ELSE IF o.status = 500 THEN
         IF a < EASTUS2_MAX_RETRIES
         THEN [next |-> "Sleep", err |-> "none", site |-> "none"]
         ELSE [next |-> "Exhausted", err |-> "None", site |-> "none"]
    ELSE IF o.status /= 200 THEN [next |-> "Exhausted", err |-> "None", site |-> "none"]
    ELSE [next |-> "Success", err |-> "none", site |-> "none"]

\* retry_teresa_chunks.transcribe_chunk (retry_chunk4_only.transcribe_chunk is
\* the same code with MAX_RETRIES = 10): one activation.  The file is opened outside the try
\* statement, so a failure to open it leaves the activation as an exception.
RecStep(a, o) ==
    IF o.kind = "open_fail" THEN [next |-> "Raise", err |-> "none", site |-> "none"]
    ELSE IF o.kind = "exception"
            \/ (o.status = 200 /\ o.body = "nonjson")
            \/ (o.status = 500 /\ ~(a < TERESA_MAX_RETRIES) /\ o.body = "nonjson")
    THEN IF a < TERESA_MAX_RETRIES
         THEN [next |-> "Sleep", err |-> "none", site |-> "handler"]
         ELSE [next |-> "Exhausted", err |-> "dict", site |-> "none"]
    ELSE IF o.status = 200 THEN [next |-> "Success", err |-> "none", site |-> "none"]
    ELSE IF o.status = 500 THEN
         IF a < TERESA_MAX_RETRIES
         THEN [next |-> "Sleep", err |-> "none", site |-> "try"]
         ELSE [next |-> "Exhausted", err |-> "dict", site |-> "none"]
    ELSE [next |-> "Exhausted", err |-> "dict", site |-> "none"]

\* process_quick.transcribe: a single attempt with no handler. Whatever
\* raises (credential, open, requests.post, response.json()) leaves the
\* function; a status other than 200 returns None.
QuickStep(a, o) ==
    IF o.kind \in {"open_fail", "exception"}
    THEN [next |-> "Raise", err |-> "none", site |-> "none"]
    ELSE IF o.status /= 200 THEN [next |-> "Exhausted", err |-> "None", site |-> "none"]
    ELSE IF o.body = "nonjson" THEN [next |-> "Raise", err |-> "none", site |-> "none"]
    ELSE [next |-> "Success", err |-> "none", site |-> "none"]

Step(v, a, o) ==
    CASE v = "pd" -> PdStep(a, o)
      [] v = "eastus2" -> Eastus2Step(a, o)
      [] v = "rec" -> RecStep(a, o)
      [] v = "quick" -> QuickStep(a, o)

\* An exception leaving a nested activation passes through every activation
\* that called from its except clause and is caught by the first one that
\* called from inside its try statement.
RECURSIVE Unwind(_)
Unwind(s) ==
    IF s = <<>> THEN <<>>
    ELSE IF s[Len(s)] = "try" THEN s
    ELSE Unwind(SubSeq(s, 1, Len(s) - 1))

RetryInit ==
    /\ variant \in Variants
    /\ pc = "Attempting"
    /\ attempt = 1
    /\ posts = 0
    /\ sleeps = 0
    /\ last = NoOutcome
    /\ prev = NoOutcome
    /\ err = "none"
    /\ accepted = 0
    /\ stack = <<>>
    /\ site = "none"
    /\ all500 = TRUE
    /\ allExc = TRUE
    /\ before500 = TRUE
    /\ opened = TRUE

\* One attempt: open the file, post it, classify what came back.
Submit ==
    /\ pc = "Attempting"
    /\ \E o \in Outcomes :
        LET r == Step(variant, attempt, o)
            u == Unwind(stack)
        IN
        /\ last' = o
        /\ prev' = last
        /\ posts' = IF o.kind = "open_fail" THEN posts ELSE posts + 1
        /\ all500' = (all500 /\ o.kind = "response" /\ o.status = 500)
        /\ allExc' = (allExc /\ o.kind = "exception")
        /\ before500' = all500
        /\ opened' = (opened /\ o.kind /= "open_fail")
        /\ accepted' = IF r.next = "Success" THEN o.status ELSE accepted
        /\ IF r.next = "Raise"
           THEN IF u = <<>>
                THEN /\ pc' = "Exhausted"
                     /\ err' = "raised"
                     /\ UNCHANGED <<attempt, stack, site>>
                ELSE /\ pc' = "Sleeping"
                     /\ attempt' = Len(u)
                     /\ stack' = SubSeq(u, 1, Len(u) - 1)
                     /\ site' = "handler"
                     /\ err' = err
           ELSE /\ pc' = CASE r.next = "Sleep" -> "Sleeping"
                            [] r.next = "Continue" -> "Attempting"
                            [] OTHER -> r.next
                /\ attempt' = IF r.next = "Continue" THEN attempt + 1 ELSE attempt
                /\ err' = r.err
                /\ site' = r.site
                /\ UNCHANGED stack
    /\ UNCHANGED <<variant, sleeps>>
    /\ UNCHANGED <<mergeVars, jobVars, batchVars, recordVars, formatVars>>

\* Mutant of Sleep: the retry is made with the same attempt number
SleepNoIncrement ==
    /\ pc = "Sleeping"
    /\ sleeps' = sleeps + 1
    /\ stack' = IF variant = "rec" THEN Append(stack, site) ELSE stack
    /\ site' = "none"
    /\ pc' = "Attempting"
    /\ UNCHANGED <<variant, attempt, posts, last, prev, err, accepted, all500,
                   allExc, before500, opened>>
    /\ UNCHANGED <<mergeVars, jobVars, batchVars, recordVars, formatVars>>

\* time.sleep(RETRY_DELAY), then the next iteration or the nested call
Sleep ==
    /\ pc = "Sleeping"
    /\ sleeps' = sleeps + 1
    /\ attempt' = attempt + 1
    /\ stack' = IF variant = "rec" THEN Append(stack, site) ELSE stack
    /\ site' = "none"
    /\ pc' = "Attempting"
    /\ UNCHANGED <<variant, posts, last, prev, err, accepted, all500, allExc,
                   before500, opened>>
    /\ UNCHANGED <<mergeVars, jobVars, batchVars, recordVars, formatVars>>

MergeIdle ==
    /\ chunk_results = <<>>
    /\ merged = <<>>
    /\ merged_again = <<>>
    /\ mpc = "idle"

\* No source file is being processed
JobIdle ==
    /\ T = 0
    /\ jpc = "idle"
    /\ duration = -1
    /\ probe_failed = FALSE
    /\ num_chunks = 0
    /\ wi = 0
    /\ chunk_files = <<>>
    /\ ci = 0
    /\ cstate = <<>>
    /\ collected = <<>>
    /\ saved = FALSE
    /\ throttles = 0
    /\ seg_failed = {}

\* The batch driver is not running
BatchIdle ==
    /\ bpc = "idle"
    /\ audio_files = 0
    /\ idx = 0
    /\ results = <<>>
    /\ summary = [total_files |-> 0, successful |-> 0, failed |-> 0]
    /\ exit_code = -1

\* No retry script has run and no record is there
RecordIdle ==
    /\ rpc = "idle"
    /\ record = <<>>
    /\ runs = 0

\* format_text_output is not running
FormatIdle ==
    /\ fpc = "idle"
    /\ result_segments = <<>>
    /\ fi = 0
    /\ current_speaker = <<>>
    /\ speaker_text = <<>>
    /\ blocks = <<>>

RetryNext == Submit \/ Sleep

InitRetry == RetryInit /\ MergeIdle /\ JobIdle /\ BatchIdle /\ RecordIdle /\ FormatIdle

SpecRetry == InitRetry /\ [][RetryNext]_vars

----------------------------------------------------------------------------
(* merge_transcriptions *)

MaxChunks == 3      \* number of ChunkResults handed to one merge
MaxSegs == 2        \* segments in one chunk's payload

\* Chunk-local start of the first segment of a payload: early in the chunk,
\* or so late that the segments reach beyond chunk_duration
LocalBases == {10, 1395}

\* Order of the segments inside a payload
SegmentOrders == {"asc", "desc"}

\* Which chunks of a list report non-zero usage counters
UsagePatterns == {"none", "all", "odd"}

\* Identifiers the service gave the segments: numbered per chunk, or opaque
IdStyles == {"seg", "x"}

\* usage objects of the service's payload
UsageChoices ==
    {[total_tokens |-> 0, input_tokens |-> 0, output_tokens |-> 0,
      input_token_details |-> [audio_tokens |-> 0, text_tokens |-> 0]],
     [total_tokens |-> 30, input_tokens |-> 20, output_tokens |-> 10,
      input_token_details |-> [audio_tokens |-> 15, text_tokens |-> 5]]}

UsageFields == {"total_tokens", "input_tokens", "output_tokens",
                "audio_tokens", "text_tokens"}

\* One diarized_json payload of the service: n segments of 10 s every 20 s
\* from `base`, speakers alternating.
Payload(n, base, usage, idStyle) ==
    [text |-> "words" \o ToString(base) \o ToString(n),
     segments |->
        [j \in 1..n |->
            [id |-> IF idStyle = "seg" THEN "seg_" \o ToString(j - 1) ELSE "x",
             speaker |-> IF j % 2 = 1 THEN "A" ELSE "B",
             text |-> "w" \o ToString(j),
             start |-> base + 20 * (j - 1),
             end |-> base + 20 * (j - 1) + 10]],
     usage |-> usage]

\* transcribe_audio_chunk: the dictionary returned for an accepted payload
MakeChunkResult(result, chunk_num) ==
    [result |-> result,
     duration_seconds |-> 2 + chunk_num,
     timestamp |-> "T" \o ToString(chunk_num),
     chunk_number |-> chunk_num,
     usage |-> [total_tokens |-> result.usage.total_tokens,
                input_tokens |-> result.usage.input_tokens,
                output_tokens |-> result.usage.output_tokens,
                audio_tokens |-> result.usage.input_token_details.audio_tokens,
                text_tokens |-> result.usage.input_token_details.text_tokens]]

\* " ".join(chunk["result"]["text"] for chunk in chunk_results)
RECURSIVE JoinText(_)
JoinText(crs) ==
    IF crs = <<>> THEN ""
    ELSE IF Len(crs) = 1 THEN crs[1].result.text
    ELSE crs[1].result.text \o " " \o JoinText(Tail(crs))

\* Mutant of AdjustSegments: identifiers numbered from the count before the append
RECURSIVE AdjustSegmentsZeroBased(_, _, _)
AdjustSegmentsZeroBased(chunk_segments, time_offset, all_segments) ==
    IF chunk_segments = <<>> THEN all_segments
    ELSE LET segment == Head(chunk_segments)
             adjusted_segment ==
                [segment EXCEPT !.start = @ + time_offset,
                                !.end = @ + time_offset,
                                !.id = "seg_" \o ToString(Len(all_segments))]
         IN AdjustSegmentsZeroBased(Tail(chunk_segments), time_offset,
                                    Append(all_segments, adjusted_segment))

\* Mutant of AdjustSegments: the adjusted segment is built anew and its
\* speaker label is not carried over
RECURSIVE AdjustSegmentsUnlabelled(_, _, _)
AdjustSegmentsUnlabelled(chunk_segments, time_offset, all_segments) ==
    IF chunk_segments = <<>> THEN all_segments
    ELSE LET segment == Head(chunk_segments)
             adjusted_segment ==
                [segment EXCEPT !.start = @ + time_offset,
                                !.end = @ + time_offset,
                                !.id = "seg_" \o ToString(Len(all_segments) + 1),
                                !.speaker = "Unknown"]
         IN AdjustSegmentsUnlabelled(Tail(chunk_segments), time_offset,
                                     Append(all_segments, adjusted_segment))

\* The inner loop over one chunk's segments: each is copied, rebased by
\* time_offset, renumbered after the segments emitted so far, and appended.
RECURSIVE AdjustSegments(_, _, _)
AdjustSegments(chunk_segments, time_offset, all_segments) ==
    IF chunk_segments = <<>> THEN all_segments
    ELSE LET segment == Head(chunk_segments)
             adjusted_segment ==
                [segment EXCEPT !.start = @ + time_offset,
                                !.end = @ + time_offset,
                                !.id = "seg_" \o ToString(Len(all_segments) + 1)]
         IN AdjustSegments(Tail(chunk_segments), time_offset,
                           Append(all_segments, adjusted_segment))

\* Mutant of CombineSegments: time_offset advanced before the chunk's segments
RECURSIVE CombineSegmentsOffsetFirst(_, _, _, _)
CombineSegmentsOffsetFirst(crs, chunk_duration, time_offset, all_segments) ==
    IF crs = <<>> THEN all_segments
    ELSE CombineSegmentsOffsetFirst(
            Tail(crs), chunk_duration, time_offset + chunk_duration,
            AdjustSegments(Head(crs).result.segments, time_offset + chunk_duration,
                           all_segments))

\* Mutant of CombineSegments: time_offset is never advanced
RECURSIVE CombineSegmentsNoAdvance(_, _, _, _)
CombineSegmentsNoAdvance(crs, chunk_duration, time_offset, all_segments) ==
    IF crs = <<>> THEN all_segments
    ELSE CombineSegmentsNoAdvance(
            Tail(crs), chunk_duration, time_offset,
            AdjustSegments(Head(crs).result.segments, time_offset, all_segments))

\* The outer loop over the chunks: time_offset advances by chunk_duration
\* after each chunk.
RECURSIVE CombineSegments(_, _, _, _)
CombineSegments(crs, chunk_duration, time_offset, all_segments) ==
    IF crs = <<>> THEN all_segments
    ELSE CombineSegments(Tail(crs), chunk_duration, time_offset + chunk_duration,
                         AdjustSegments(Head(crs).result.segments, time_offset,
                                        all_segments))

\* sum(c["usage"][field] for c in chunk_results)
RECURSIVE SumUsage(_, _)
SumUsage(crs, field) ==
    IF crs = <<>> THEN 0 ELSE Head(crs).usage[field] + SumUsage(Tail(crs), field)

\* sum(c["duration_seconds"] for c in chunk_results)
RECURSIVE SumDuration(_)
SumDuration(crs) ==
    IF crs = <<>> THEN 0 ELSE Head(crs).duration_seconds + SumDuration(Tail(crs))

\* Mutant of TotalUsage: audio_tokens summed from the text_tokens counters
TotalUsageCopyPaste(crs) ==
    [total_tokens |-> SumUsage(crs, "total_tokens"),
     input_tokens |-> SumUsage(crs, "input_tokens"),
     output_tokens |-> SumUsage(crs, "output_tokens"),
     audio_tokens |-> SumUsage(crs, "text_tokens"),
     text_tokens |-> SumUsage(crs, "text_tokens")]

\* total_usage
TotalUsage(crs) ==
    [total_tokens |-> SumUsage(crs, "total_tokens"),
     input_tokens |-> SumUsage(crs, "input_tokens"),
     output_tokens |-> SumUsage(crs, "output_tokens"),
     audio_tokens |-> SumUsage(crs, "audio_tokens"),
     text_tokens |-> SumUsage(crs, "text_tokens")]

\* The dictionary built for two or more chunks
MergedOf(crs, chunk_duration) ==
    LET total_usage == TotalUsage(crs) IN
    [result |->
        [text |-> JoinText(crs),
         segments |-> CombineSegments(crs, chunk_duration, 0, <<>>),
         usage |-> [type |-> "tokens",
                    total_tokens |-> total_usage.total_tokens,
                    input_tokens |-> total_usage.input_tokens,
                    output_tokens |-> total_usage.output_tokens,
                    audio_tokens |-> total_usage.audio_tokens,
                    text_tokens |-> total_usage.text_tokens]],
     duration_seconds |-> SumDuration(crs),
     timestamp |-> crs[1].timestamp,
     usage |-> total_usage,
     chunks_processed |-> Len(crs)]

\* Mutant of merge_transcriptions: no early return for a single chunk
merge_transcriptions_NoFastPath(crs, chunk_duration) == MergedOf(crs, chunk_duration)

\* merge_transcriptions(chunk_results, chunk_duration), for a non-empty list
merge_transcriptions(crs, chunk_duration) ==
    IF Len(crs) = 1 THEN crs[1] ELSE MergedOf(crs, chunk_duration)

\* Number of segments in the first i chunks of a list
RECURSIVE SegmentsUpTo(_, _)
SegmentsUpTo(crs, i) ==
    IF i = 0 THEN 0 ELSE SegmentsUpTo(crs, i - 1) + Len(crs[i].result.segments)

\* Mutant of InputAfterMerge: the segments are rebased and renumbered in
\* place, without segment.copy()
InputAfterMergeInPlace(crs, chunk_duration) ==
    IF Len(crs) = 1 THEN crs
    ELSE LET all_segments == CombineSegments(crs, chunk_duration, 0, <<>>) IN
         [i \in 1..Len(crs) |->
            [crs[i] EXCEPT !.result.segments =
                [j \in 1..Len(@) |-> all_segments[SegmentsUpTo(crs, i - 1) + j]]]]

\* The caller's list once merge_transcriptions has returned: the single
\* chunk is returned as it is, and with several chunks every segment is
\* copied (segment.copy()) before start, end and id are assigned, so the
\* list and the dictionaries in it are what they were.
InputAfterMerge(crs, chunk_duration) == crs

RetryIdle ==
    /\ variant = "none"
    /\ pc = "idle"
    /\ attempt = 1
    /\ posts = 0
    /\ sleeps = 0
    /\ last = NoOutcome
    /\ prev = NoOutcome
    /\ err = "none"
    /\ accepted = 0
    /\ stack = <<>>
    /\ site = "none"
    /\ all500 = TRUE
    /\ allExc = TRUE
    /\ before500 = TRUE
    /\ opened = TRUE

ChunkTemplates == [n : 0..MaxSegs, base : LocalBases]

\* The usage object of the i-th payload under a usage pattern
PatternUsage(pattern, i) ==
    IF pattern = "all" \/ (pattern = "odd" /\ i % 2 = 1)
    THEN CHOOSE u \in UsageChoices : u.total_tokens > 0
    ELSE CHOOSE u \in UsageChoices : u.total_tokens = 0

\* A payload whose segments come in the given order
OrderSegments(result, order) ==
    IF order = "asc" THEN result
    ELSE [result EXCEPT !.segments = [j \in 1..Len(@) |-> @[Len(@) + 1 - j]]]

\* The lists of ChunkResults process_deposition can hand to the merge: the
\* i-th was returned by transcribe_audio_chunk(chunk_num = i).
InitMerge ==
    /\ RetryIdle
    /\ JobIdle
    /\ BatchIdle
    /\ RecordIdle
    /\ FormatIdle
    /\ \E k \in 0..MaxChunks, idStyle \in IdStyles, order \in SegmentOrders,
          pattern \in UsagePatterns :
        \E t \in [1..k -> ChunkTemplates] :
            chunk_results =
                [i \in 1..k |->
                    MakeChunkResult(
                        OrderSegments(Payload(t[i].n, t[i].base,
                                              PatternUsage(pattern, i), idStyle),
                                      order),
                        i)]
    /\ merged = <<>>
    /\ merged_again = <<>>
    /\ mpc = "ready"

\* merged_result = merge_transcriptions(chunk_results, CHUNK_DURATION_SECONDS);
\* with no chunk at all chunk_results[0] raises IndexError.
Merge ==
    /\ mpc = "ready"
    /\ IF chunk_results = <<>>
       THEN /\ mpc' = "error"
            /\ merged' = merged
            /\ chunk_results' = chunk_results
       ELSE /\ mpc' = "done"
            /\ merged' = merge_transcriptions(chunk_results, CHUNK_DURATION_SECONDS)
            /\ chunk_results' = InputAfterMerge(chunk_results, CHUNK_DURATION_SECONDS)
    /\ UNCHANGED merged_again
    /\ UNCHANGED <<retryVars, jobVars, batchVars, recordVars, formatVars>>

\* A second merge_transcriptions call on the list the first call was given
MergeAgain ==
    /\ mpc = "done"
    /\ mpc' = "repeated"
    /\ merged_again' = merge_transcriptions(chunk_results, CHUNK_DURATION_SECONDS)
    /\ chunk_results' = InputAfterMerge(chunk_results, CHUNK_DURATION_SECONDS)
    /\ UNCHANGED merged
    /\ UNCHANGED <<retryVars, jobVars, batchVars, recordVars, formatVars>>

MergeNext == Merge \/ MergeAgain

SpecMerge == InitMerge /\ [][MergeNext]_vars

----------------------------------------------------------------------------
(* The splitter and the job of one source file *)

MaxWindows == 2     \* the source is shorter than MaxWindows + 1 chunk durations

\* Scripts with a per-file job: process_depositions.process_deposition, and
\* the body of the file loop of process_depositions_eastus2.main and
\* process_quick.main
JobVariants == {"pd", "eastus2", "quick"}

\* Length of one window
ChunkDuration(v) ==
    CASE v = "pd" -> CHUNK_DURATION_SECONDS
      [] v = "eastus2" -> EASTUS2_CHUNK_DURATION
      [] v = "quick" -> QUICK_CHUNK_DURATION

\* Mutant of SplitThreshold: the source is returned only below the chunk
\* duration
SplitThresholdExclusive(v) == ChunkDuration(v) - 1

\* split_audio returns the source itself up to this duration
SplitThreshold(v) ==
    IF v = "pd" THEN MAX_DURATION_SECONDS ELSE ChunkDuration(v)

\* Source durations: at, just below and between the multiples of the chunk
\* duration
Durations(v) ==
    {k * ChunkDuration(v) + d :
        k \in 0..MaxWindows, d \in {0, 100, 101, ChunkDuration(v) - 1}}

\* Mutant of NumChunksOf: the number of windows is ceil(duration / chunk_duration)
NumChunksCeiling(d, chunk_duration) == (d + chunk_duration - 1) \div chunk_duration

\* num_chunks = int((duration / chunk_duration) + 1)
NumChunksOf(d, chunk_duration) == (d \div chunk_duration) + 1

\* The payload the service answers with for a chunk of the job
JobPayload ==
    Payload(1, 10, CHOOSE u \in UsageChoices : u.total_tokens > 0, "x")

\* Where split_audio returns to: the chunk loop of process_deposition or of
\* main; process_depositions.split_audio called on its own (process_deposition
\* has not probed: duration is unset) just returns.
AfterSplit == IF variant = "pd" /\ duration = -1 THEN "returned" ELSE "chunks"

\* A job starts in process_deposition or, in the other scripts, at the
\* split_audio call of main's file loop; process_depositions.split_audio is
\* also started on its own.
InitJob ==
    /\ variant \in JobVariants
    /\ pc = "idle"
    /\ attempt = 1
    /\ posts = 0
    /\ sleeps = 0
    /\ last = NoOutcome
    /\ prev = NoOutcome
    /\ err = "none"
    /\ accepted = 0
    /\ stack = <<>>
    /\ site = "none"
    /\ all500 = TRUE
    /\ allExc = TRUE
    /\ before500 = TRUE
    /\ opened = TRUE
    /\ MergeIdle
    /\ BatchIdle
    /\ RecordIdle
    /\ FormatIdle
    /\ T \in Durations(variant)
    /\ jpc \in IF variant = "pd" THEN {"probe", "split_probe"} ELSE {"split_probe"}
    /\ duration = -1
    /\ probe_failed = FALSE
    /\ num_chunks = 0
    /\ wi = 0
    /\ chunk_files = <<>>
    /\ ci = 0
    /\ cstate = <<>>
    /\ collected = <<>>
    /\ saved = FALSE
    /\ throttles = 0
    /\ seg_failed = {}

\* process_deposition up to the choice of chunk_files: get_audio_duration
\* returns the duration, or 0 when ffprobe fails; get_auth_headers may raise;
\* a duration above MAX_DURATION_SECONDS goes to split_audio.
JobProbe ==
    /\ jpc = "probe"
    /\ \E probe_ok \in BOOLEAN, auth_ok \in BOOLEAN :
        LET d == IF probe_ok THEN T ELSE 0 IN
        /\ duration' = d
        /\ probe_failed' = ~probe_ok
        /\ IF ~auth_ok
           THEN /\ jpc' = "failed"
                /\ UNCHANGED <<chunk_files, cstate>>
           ELSE IF d > MAX_DURATION_SECONDS
           THEN /\ jpc' = "split_probe"
                /\ UNCHANGED <<chunk_files, cstate>>
           ELSE /\ chunk_files' = <<-1>>
                /\ cstate' = <<"pending">>
                /\ jpc' = "chunks"
    /\ UNCHANGED <<T, num_chunks, wi, ci, collected, saved, throttles, seg_failed>>
    /\ UNCHANGED <<retryVars, mergeVars, batchVars, recordVars, formatVars>>

\* split_audio up to its loop: the duration is probed (again, in
\* process_depositions); get_duration of the other scripts raises when
\* ffprobe fails and nothing catches it.
SplitProbe ==
    /\ jpc = "split_probe"
    /\ \E probe_ok \in BOOLEAN :
        LET d == IF probe_ok THEN T ELSE 0 IN
        /\ probe_failed' = (probe_failed \/ ~probe_ok)
        /\ IF ~probe_ok /\ variant /= "pd"
           THEN /\ jpc' = "crashed"
                /\ UNCHANGED <<num_chunks, chunk_files, cstate>>
           ELSE IF d <= SplitThreshold(variant)
           THEN /\ chunk_files' = <<-1>>
                /\ cstate' = <<"pending">>
                /\ jpc' = AfterSplit
                /\ UNCHANGED num_chunks
           ELSE /\ num_chunks' = NumChunksOf(d, ChunkDuration(variant))
                /\ jpc' = "splitting"
                /\ UNCHANGED <<chunk_files, cstate>>
    /\ UNCHANGED <<T, duration, wi, ci, collected, saved, throttles, seg_failed>>
    /\ UNCHANGED <<retryVars, mergeVars, batchVars, recordVars, formatVars>>

\* One iteration of split_audio's loop: ffmpeg cuts window i, from
\* i * chunk_duration for chunk_duration seconds. process_depositions skips
\* the window when ffmpeg returns non-zero; the other scripts do not look at
\* the return code.
SplitWindow ==
    /\ jpc = "splitting"
    /\ \E returncode_ok \in BOOLEAN :
        LET files == IF returncode_ok \/ variant /= "pd"
                     THEN Append(chunk_files, wi)
                     ELSE chunk_files
        IN
        /\ chunk_files' = files
        /\ seg_failed' = IF returncode_ok THEN seg_failed ELSE seg_failed \cup {wi}
        /\ wi' = wi + 1
        /\ IF wi + 1 = num_chunks
           THEN /\ jpc' = AfterSplit
                /\ cstate' = [i \in 1..Len(files) |-> "pending"]
           ELSE UNCHANGED <<jpc, cstate>>
    /\ UNCHANGED <<T, duration, probe_failed, num_chunks, ci, collected, saved,
                   throttles>>
    /\ UNCHANGED <<retryVars, mergeVars, batchVars, recordVars, formatVars>>

\* Mutant of AtNextChunk: the loop goes on while a chunk is still with its
\* controller
AtNextChunkEager ==
    /\ jpc \in {"chunks", "transcribing"}
    /\ ci < Len(chunk_files)

\* The chunk loop is at the top of an iteration and a chunk is left
AtNextChunk ==
    /\ jpc = "chunks"
    /\ ci < Len(chunk_files)

\* The loop hands the next chunk to the retry controller, which starts with
\* attempt 1.
StartChunk ==
    /\ AtNextChunk
    /\ ci' = ci + 1
    /\ cstate' = [cstate EXCEPT ![ci + 1] = "running"]
    /\ jpc' = "transcribing"
    /\ pc' = "Attempting"
    /\ attempt' = 1
    /\ posts' = 0
    /\ sleeps' = 0
    /\ last' = NoOutcome
    /\ prev' = NoOutcome
    /\ err' = "none"
    /\ accepted' = 0
    /\ stack' = <<>>
    /\ site' = "none"
    /\ all500' = TRUE
    /\ allExc' = TRUE
    /\ before500' = TRUE
    /\ opened' = TRUE
    /\ UNCHANGED <<variant, T, duration, probe_failed, num_chunks, wi, chunk_files,
                   collected, saved, throttles, seg_failed>>
    /\ UNCHANGED <<mergeVars, batchVars, recordVars, formatVars>>

\* Mutant of Collects: an entry is appended whatever the controller returned
CollectsAlways(v, ended) == TRUE

\* Whether the loop body appends the controller's return value to the list:
\* process_deposition appends what transcribe_audio_chunk returns; the other
\* scripts append under `if result:`, and a failed chunk returns None.
Collects(v, ended) == ended = "Success"

\* Mutant of AfterChunk: process_deposition logs a failed chunk and goes on
\* with the next one, as the main of process_depositions_eastus2 does
AfterChunkKeepGoing(v, ended, e) ==
    IF v = "quick" /\ e = "raised" THEN "crashed" ELSE "chunks"

\* Where the chunk loop is after the controller returned: process_deposition
\* re-raises a failure (the job is over); process_quick has no handler for an
\* exception of its transcribe; otherwise the loop goes on.
AfterChunk(v, ended, e) ==
    IF v = "pd" /\ ended = "Exhausted" THEN "failed"
    ELSE IF v = "quick" /\ e = "raised" THEN "crashed"
    ELSE "chunks"

\* Mutant of Throttled: the pause follows every chunk but the last, failed
\* or not
ThrottledAfterEveryChunk(v, i, n, ended) == v = "eastus2" /\ i < n

\* process_depositions_eastus2.main: time.sleep(DELAY_BETWEEN_CHUNKS) after
\* chunk i of n (1-based) is guarded by `i < len(chunks) - 1 and result`
\* (i 0-based there)
Throttled(v, i, n, ended) == v = "eastus2" /\ i < n /\ ended = "Success"

\* The rest of the loop body, once the controller has ended. An exception
\* is re-raised by process_deposition and ends the job; in process_quick it
\* leaves main. process_depositions_eastus2 then sleeps
\* DELAY_BETWEEN_CHUNKS unless the chunk was the last or gave no result.
\* The controller's locals are gone once it has returned.
FinishChunk ==
    /\ jpc = "transcribing"
    /\ pc \in {"Success", "Exhausted"}
    /\ cstate' = [cstate EXCEPT ![ci] = pc]
    /\ pc' = "idle"
    /\ attempt' = 1
    /\ posts' = 0
    /\ sleeps' = 0
    /\ last' = NoOutcome
    /\ prev' = NoOutcome
    /\ err' = "none"
    /\ accepted' = 0
    /\ stack' = <<>>
    /\ site' = "none"
    /\ all500' = TRUE
    /\ allExc' = TRUE
    /\ before500' = TRUE
    /\ opened' = TRUE
    /\ IF Collects(variant, pc)
       THEN /\ chunk_results' =
                Append(chunk_results,
                       IF variant = "pd" THEN MakeChunkResult(JobPayload, ci)
                       ELSE JobPayload)
            /\ collected' = Append(collected, ci)
       ELSE UNCHANGED <<chunk_results, collected>>
    /\ jpc' = AfterChunk(variant, pc, err)
    /\ throttles' = IF Throttled(variant, ci, Len(chunk_files), pc)
                    THEN throttles + 1
                    ELSE throttles
    /\ UNCHANGED seg_failed
    /\ UNCHANGED <<variant, merged, merged_again, mpc>>
    /\ UNCHANGED <<T, duration, probe_failed, num_chunks, wi, chunk_files, ci, saved>>
    /\ UNCHANGED <<batchVars, recordVars, formatVars>>

\* The loop is over. process_deposition goes on to merge_transcriptions; the
\* other scripts write {"chunks": all_results} when the list is not empty.
EndChunks ==
    /\ jpc = "chunks"
    /\ ci = Len(chunk_files)
    /\ IF variant = "pd"
       THEN /\ jpc' = "merging"
            /\ mpc' = "ready"
            /\ UNCHANGED saved
       ELSE /\ jpc' = IF chunk_results /= <<>> THEN "saved" ELSE "empty"
            /\ saved' = (chunk_results /= <<>>)
            /\ UNCHANGED mpc
    /\ UNCHANGED <<chunk_results, merged, merged_again>>
    /\ UNCHANGED <<T, duration, probe_failed, num_chunks, wi, chunk_files, ci,
                   cstate, collected, throttles, seg_failed>>
    /\ UNCHANGED <<retryVars, batchVars, recordVars, formatVars>>

\* process_deposition after merge_transcriptions: save_results writes the
\* record; the IndexError of an empty list leaves process_deposition.
SaveResults ==
    /\ jpc = "merging"
    /\ mpc \in {"done", "error"}
    /\ jpc' = IF mpc = "done" THEN "saved" ELSE "failed"
    /\ saved' = (mpc = "done")
    /\ UNCHANGED <<T, duration, probe_failed, num_chunks, wi, chunk_files, ci,
                   cstate, collected, throttles, seg_failed>>
    /\ UNCHANGED <<retryVars, mergeVars, batchVars, recordVars, formatVars>>

\* process_all_depositions, around the process_deposition call of one file:
\* the dictionary it returned, or the failure entry of the handler, is
\* appended to results.
RecordFile ==
    /\ variant = "pd"
    /\ jpc \in {"saved", "failed"}
    /\ results = <<>>
    /\ results' = <<[audio_file |-> 1, success |-> (jpc = "saved")]>>
    /\ UNCHANGED <<bpc, audio_files, idx, summary, exit_code>>
    /\ UNCHANGED <<retryVars, mergeVars, jobVars, recordVars, formatVars>>

JobNext ==
    \/ JobProbe
    \/ SplitProbe
    \/ SplitWindow
    \/ StartChunk
    \/ Submit
    \/ Sleep
    \/ FinishChunk
    \/ EndChunks
    \/ Merge
    \/ SaveResults
    \/ RecordFile

SpecJob == InitJob /\ [][JobNext]_vars

----------------------------------------------------------------------------
(* The batch drivers: process_depositions.main and process_depositions_eastus2.main *)

MaxFiles == 4       \* source files found by the scan

BatchVariants == {"pd", "eastus2"}

\* How the job of one file ends. process_deposition returns its result once
\* the record is saved, or an exception leaves it. The body of eastus2's
\* file loop saves the chunks, or has none to save, or an exception leaves
\* it (get_duration, the write). These are the final positions of the job.
JobEnds(v) ==
    IF v = "pd" THEN {"saved", "failed"} ELSE {"saved", "empty", "crashed"}

\* Number of entries of the results list with a true success flag
RECURSIVE Successful(_)
Successful(rs) ==
    IF rs = <<>> THEN 0
    ELSE (IF Head(rs).success THEN 1 ELSE 0) + Successful(Tail(rs))

\* Mutant of ExitCode: 0 only when every file succeeded
ExitCodeAllSucceeded(rs) ==
    IF \A k \in DOMAIN rs : rs[k].success THEN 0 ELSE 1

\* return 0 if any(r.get('success') for r in results) else 1
ExitCode(rs) ==
    IF \E k \in DOMAIN rs : rs[k].success THEN 0 ELSE 1

\* process_depositions.main first looks for ffmpeg and ffprobe; eastus2's
\* main begins with the scan.
InitBatch ==
    /\ variant \in BatchVariants
    /\ pc = "idle"
    /\ attempt = 1
    /\ posts = 0
    /\ sleeps = 0
    /\ last = NoOutcome
    /\ prev = NoOutcome
    /\ err = "none"
    /\ accepted = 0
    /\ stack = <<>>
    /\ site = "none"
    /\ all500 = TRUE
    /\ allExc = TRUE
    /\ before500 = TRUE
    /\ opened = TRUE
    /\ MergeIdle
    /\ JobIdle
    /\ RecordIdle
    /\ FormatIdle
    /\ bpc = IF variant = "pd" THEN "check_tools" ELSE "scan"
    /\ audio_files = 0
    /\ idx = 0
    /\ results = <<>>
    /\ summary = [total_files |-> 0, successful |-> 0, failed |-> 0]
    /\ exit_code = -1

\* process_depositions.main: ffmpeg -version and ffprobe -version; return 1
\* when either is missing or fails.
CheckTools ==
    /\ bpc = "check_tools"
    /\ \E tools_ok \in BOOLEAN :
        IF tools_ok
        THEN /\ bpc' = "scan"
             /\ UNCHANGED exit_code
        ELSE /\ bpc' = "exited"
             /\ exit_code' = 1
    /\ UNCHANGED <<audio_files, idx, results, summary>>
    /\ UNCHANGED <<retryVars, mergeVars, jobVars, recordVars, formatVars>>

\* The scan for source files. process_all_depositions raises
\* FileNotFoundError when the directory is missing or holds no mp3 file, and
\* main catches it and returns 1; eastus2's main loops over what rglob gives.
Scan ==
    /\ bpc = "scan"
    /\ \E dir_exists \in BOOLEAN, n \in 0..MaxFiles :
        LET found == IF dir_exists THEN n ELSE 0 IN
        IF variant = "pd" /\ found = 0
        THEN /\ bpc' = "exited"
             /\ exit_code' = 1
             /\ UNCHANGED audio_files
        ELSE /\ audio_files' = found
             /\ bpc' = "files"
             /\ UNCHANGED exit_code
    /\ UNCHANGED <<idx, results, summary>>
    /\ UNCHANGED <<retryVars, mergeVars, jobVars, recordVars, formatVars>>

\* One iteration of the file loop. process_all_depositions appends the
\* result of process_deposition, or a failed entry when an exception left
\* it. eastus2's main keeps no list and has no handler: an exception ends
\* the process with a traceback and exit status 1.
ProcessFile ==
    /\ bpc = "files"
    /\ idx < audio_files
    /\ \E end \in JobEnds(variant) :
        IF end = "crashed"
        THEN /\ bpc' = "exited"
             /\ exit_code' = 1
             /\ UNCHANGED <<idx, results>>
        ELSE /\ idx' = idx + 1
             /\ results' =
                    IF variant = "pd"
                    THEN Append(results, [audio_file |-> idx + 1,
                                          success |-> (end = "saved")])
                    ELSE results
             /\ UNCHANGED <<bpc, exit_code>>
    /\ UNCHANGED <<audio_files, summary>>
    /\ UNCHANGED <<retryVars, mergeVars, jobVars, recordVars, formatVars>>

\* print_summary(results)
PrintSummary ==
    /\ variant = "pd"
    /\ bpc = "files"
    /\ idx = audio_files
    /\ summary' = [total_files |-> Len(results),
                   successful |-> Successful(results),
                   failed |-> Len(results) - Successful(results)]
    /\ bpc' = "summarised"
    /\ UNCHANGED <<audio_files, idx, results, exit_code>>
    /\ UNCHANGED <<retryVars, mergeVars, jobVars, recordVars, formatVars>>

\* The value handed to sys.exit by process_depositions.main after the
\* summary; eastus2's main just returns after its loop.
Exit ==
    /\ \/ bpc = "summarised"
       \/ (variant /= "pd" /\ bpc = "files" /\ idx = audio_files)
    /\ exit_code' = IF variant = "pd" THEN ExitCode(results) ELSE 0
    /\ bpc' = "exited"
    /\ UNCHANGED <<audio_files, idx, results, summary>>
    /\ UNCHANGED <<retryVars, mergeVars, jobVars, recordVars, formatVars>>

BatchNext == CheckTools \/ Scan \/ ProcessFile \/ PrintSummary \/ Exit

SpecBatch == InitBatch /\ [][BatchNext]_vars

(* ------------------------------------------------------------------ *)
(* The retry scripts on the record written by                         *)
(* process_depositions_eastus2.main                                   *)
(* ------------------------------------------------------------------ *)

\* Bound on the number of retry script runs on one record
MaxRuns == 3

\* The source of the record was cut into five chunks ("chunk n/5")
SOURCE_CHUNKS == 5

\* The chunks retry_teresa_chunks.main goes through (chunks_to_retry)
TERESA_CHUNKS == {3, 4}

\* An entry appended by process_depositions_eastus2.main: the payload of the
\* service for chunk c (its text stood for by c), which has no "chunk_number"
SavedEntry(c) == [text |-> c]

\* An entry built by a retry script for chunk c
RetriedEntry(c) == [chunk_number |-> c, text |-> c]

\* The chunks of a set, in ascending order
Ascending(cs) == SelectSeq([i \in 1..SOURCE_CHUNKS |-> i], LAMBDA c : c \in cs)

\* lambda x: x.get("chunk_number", 0)
SortKey(x) == IF "chunk_number" \in DOMAIN x THEN x.chunk_number ELSE 0

\* list.sort(key=...), which is stable: an entry goes behind every entry
\* whose key is not larger
RECURSIVE SortedByChunkNumber(_)
SortedByChunkNumber(all_chunks) ==
    IF all_chunks = <<>> THEN <<>>
    ELSE LET n == Len(all_chunks)
             front == SortedByChunkNumber(SubSeq(all_chunks, 1, n - 1))
             x == all_chunks[n]
             k == Cardinality({i \in 1..(n - 1) : SortKey(front[i]) <= SortKey(x)})
         IN SubSeq(front, 1, k) \o <<x>> \o SubSeq(front, k + 1, n - 1)

\* existing_data["chunks"] + new_chunks, sorted
MergedChunks(existing, new_chunks) == SortedByChunkNumber(existing \o new_chunks)

InitRecord ==
    /\ RetryIdle
    /\ MergeIdle
    /\ JobIdle
    /\ BatchIdle
    /\ FormatIdle
    /\ rpc = "start"
    /\ record = <<>>
    /\ runs = 0

\* process_depositions_eastus2.main for the file: the payloads of the chunks
\* that gave a result are written, in chunk order, when there is at least one
WriteRecord ==
    /\ rpc = "start"
    /\ \E got \in SUBSET (1..SOURCE_CHUNKS) :
        LET all_results == [p \in 1..Cardinality(got) |-> SavedEntry(Ascending(got)[p])] IN
        IF all_results /= <<>>
        THEN /\ record' = all_results
             /\ rpc' = "written"
        ELSE /\ rpc' = "none"
             /\ UNCHANGED record
    /\ UNCHANGED runs
    /\ UNCHANGED <<retryVars, mergeVars, jobVars, batchVars, formatVars>>

\* One run of retry_teresa_chunks.main: the record is loaded first; chunks 3
\* and 4 are transcribed and those that succeed are added, the list is
\* sorted and written back.
RetryTeresa ==
    /\ rpc \in {"written", "none"}
    /\ runs < MaxRuns
    /\ runs' = runs + 1
    /\ IF rpc = "none"
       THEN /\ rpc' = "crashed"
            /\ UNCHANGED record
       ELSE \E got \in SUBSET TERESA_CHUNKS :
              LET new_chunks == [p \in 1..Cardinality(got) |-> RetriedEntry(Ascending(got)[p])] IN
              /\ record' = IF new_chunks /= <<>>
                           THEN MergedChunks(record, new_chunks)
                           ELSE record
              /\ UNCHANGED rpc
    /\ UNCHANGED <<retryVars, mergeVars, jobVars, batchVars, formatVars>>

\* One run of retry_chunk4_only.main: chunk 4 is transcribed and, on success,
\* the record is loaded, the chunk is added, the list is sorted and written
\* back.
RetryChunk4 ==
    /\ rpc \in {"written", "none"}
    /\ runs < MaxRuns
    /\ runs' = runs + 1
    /\ \E success \in BOOLEAN :
        IF ~success
        THEN UNCHANGED <<rpc, record>>
        ELSE IF rpc = "none"
        THEN /\ rpc' = "crashed"
             /\ UNCHANGED record
        ELSE /\ record' = MergedChunks(record, <<RetriedEntry(4)>>)
             /\ UNCHANGED rpc
    /\ UNCHANGED <<retryVars, mergeVars, jobVars, batchVars, formatVars>>

RecordNext ==
    \/ WriteRecord
    \/ RetryTeresa
    \/ RetryChunk4

SpecRecord == InitRecord /\ [][RecordNext]_vars

(* ------------------------------------------------------------------ *)
(* format_text_output: the speaker-segmented section                   *)
(* ------------------------------------------------------------------ *)

\* Bound on the number of segments of a formatted result
MaxFormatSegs == 3

\* Speaker labels a segment may carry; a segment may also have none
SpeakerLabels == {"A", "B", ""}

\* Segment texts, as sequences of characters
SegmentTexts == {<<"a">>, <<" ", "b", "c", " ">>}

Whitespace == {" "}

\* The segments a result may hold
FormatSegments ==
    {[speaker |-> sp, text |-> t] : sp \in SpeakerLabels, t \in SegmentTexts}
        \cup {[text |-> t] : t \in SegmentTexts}

\* str.strip()
RECURSIVE Strip(_)
Strip(t) ==
    IF t = <<>> THEN t
    ELSE IF Head(t) \in Whitespace THEN Strip(Tail(t))
    ELSE IF t[Len(t)] \in Whitespace THEN Strip(SubSeq(t, 1, Len(t) - 1))
    ELSE t

\* ''.join(speaker_text)
RECURSIVE JoinEmpty(_)
JoinEmpty(texts) ==
    IF texts = <<>> THEN <<>> ELSE Head(texts) \o JoinEmpty(Tail(texts))

\* segment.get('speaker', 'Unknown')
SpeakerOf(segment) ==
    IF "speaker" \in DOMAIN segment THEN segment.speaker ELSE "Unknown"

\* Truth value of current_speaker (<<>> stands for None): None and the empty
\* string are false
Truthy(cs) == cs /= <<>> /\ cs[1] /= ""

\* `if current_speaker and speaker_text:` and the three lines.append calls:
\* the label line and the joined text of the speaker so far
OutputSpeaker(bs, cs, texts) ==
    IF Truthy(cs) /\ texts /= <<>>
    THEN Append(bs, [speaker |-> cs[1], text |-> JoinEmpty(texts)])
    ELSE bs

InitFormat ==
    /\ RetryIdle
    /\ MergeIdle
    /\ JobIdle
    /\ BatchIdle
    /\ RecordIdle
    /\ fpc = "loop"
    /\ \E n \in 0..MaxFormatSegs : result_segments \in [1..n -> FormatSegments]
    /\ fi = 0
    /\ current_speaker = <<>>
    /\ speaker_text = <<>>
    /\ blocks = <<>>

\* One iteration of `for segment in result['segments']`
FormatSegment ==
    /\ fpc = "loop"
    /\ fi < Len(result_segments)
    /\ LET segment == result_segments[fi + 1]
           speaker == SpeakerOf(segment)
           text == Strip(segment.text)
       IN IF <<speaker>> /= current_speaker
          THEN /\ blocks' = OutputSpeaker(blocks, current_speaker, speaker_text)
               /\ current_speaker' = <<speaker>>
               /\ speaker_text' = <<text>>
          ELSE /\ speaker_text' = Append(speaker_text, text)
               /\ UNCHANGED <<blocks, current_speaker>>
    /\ fi' = fi + 1
    /\ UNCHANGED <<fpc, result_segments>>
    /\ UNCHANGED <<retryVars, mergeVars, jobVars, batchVars, recordVars>>

\* After the loop: the final speaker's text
FormatFinal ==
    /\ fpc = "loop"
    /\ fi = Len(result_segments)
    /\ blocks' = OutputSpeaker(blocks, current_speaker, speaker_text)
    /\ fpc' = "done"
    /\ UNCHANGED <<result_segments, fi, current_speaker, speaker_text>>
    /\ UNCHANGED <<retryVars, mergeVars, jobVars, batchVars, recordVars>>

FormatNext == FormatSegment \/ FormatFinal

SpecFormat == InitFormat /\ [][FormatNext]_vars

----------------------------------------------------------------------------
(* Properties of the retry controllers, stated for SpecRetry *)

Is200Json(o) == o.kind = "response" /\ o.status = 200 /\ o.body = "json"

\* The latest outcome is the one the controller has just classified (it has
\* not yet gone on to the next attempt).
JustAnswered == last.kind = "response" /\ pc /= "Attempting"

\* C1: when every HTTP response is a 500, the controller submits exactly
\* MAX_RETRIES times, then ends Exhausted with an error surfaced to the
\* caller, and never returns a result.
C1_RetryExhaustionOn500 ==
    (all500 /\ posts > 0) =>
        /\ pc /= "Success"
        /\ posts <= MaxRetries(variant)
        /\ (posts = MaxRetries(variant)) <=> (pc = "Exhausted")
        /\ (pc = "Exhausted" => err /= "none")
        /\ (pc = "Exhausted" /\ variant = "pd" /\ last.body = "json" => err = "HTTPError")
        /\ (pc = "Exhausted" => ~ENABLED Submit /\ ~ENABLED Sleep)

C1_Witness ==
    /\ variant = "pd"
    /\ all500
    /\ pc = "Exhausted"
    /\ posts = PD_MAX_RETRIES
    /\ err = "HTTPError"

\* C2: when attempts 1..k-1 each meet a 500 and attempt k meets a 200 with a
\* parseable payload, the controller returns Success with that payload after
\* exactly k submissions and submits nothing afterwards.
C2_RetrySuccessPath ==
    (before500 /\ Is200Json(last)) =>
        /\ pc = "Success"
        /\ accepted = 200
        /\ posts = attempt
        /\ sleeps = attempt - 1
        /\ attempt <= MaxRetries(variant)
        /\ ~ENABLED Submit
        /\ ~ENABLED Sleep

C2_Witness ==
    /\ variant = "pd"
    /\ before500
    /\ Is200Json(last)
    /\ pc = "Success"
    /\ posts = PD_MAX_RETRIES

\* C3 (as claimed): a response whose status is neither 200 nor 500, whatever
\* its body, ends the controller Exhausted at once: no further submission and
\* no further sleep.
C3_TerminalNeverRetried ==
    (last.kind = "response" /\ last.status \notin {200, 500}) =>
        /\ pc = "Exhausted"
        /\ ~ENABLED Submit
        /\ ~ENABLED Sleep

C5_SuccessOnlyOn200 == pc = "Success" => accepted = 200

\* C6 (as claimed): every 5xx response met on an attempt before the last is
\* followed by the sleep and the next attempt, and a 5xx response ends the
\* controller only on the last attempt.
C6_Every5xxRetried ==
    (JustAnswered /\ last.status >= 500 /\ last.status <= 599) =>
        /\ (attempt < MaxRetries(variant) => pc = "Sleeping")
        /\ (pc = "Exhausted" => attempt = MaxRetries(variant))

\* C6 (amended): a response of status exactly 500 met on an attempt before the
\* last is followed by the sleep of the fixed delay and then by the next
\* attempt; a 500 response ends the controller only on the last attempt.
C6_Status500Retried ==
    /\ [](JustAnswered /\ last.status = 500 =>
            /\ (attempt < MaxRetries(variant) => pc = "Sleeping")
            /\ (pc = "Exhausted" => attempt = MaxRetries(variant))
            /\ pc /= "Success")
    /\ [][pc = "Sleeping" =>
            /\ pc' = "Attempting"
            /\ attempt' = attempt + 1
            /\ sleeps' = sleeps + 1
            /\ posts' = posts]_vars

C6_Witness ==
    /\ variant = "eastus2"
    /\ JustAnswered
    /\ last.status = 500
    /\ attempt < EASTUS2_MAX_RETRIES
    /\ pc = "Sleeping"

\* The counts of a run in which every submission but the first follows
\* exactly one sleep: before an attempt there have been as many sleeps as
\* submissions and the attempt number is one more; a run ended by a
\* submission has slept once less than it submitted, at the attempt number
\* of that submission; an ended run sleeps no more.
OneSleepBetweenSubmissions ==
    /\ (pc = "Attempting") => (sleeps = posts /\ attempt = posts + 1)
    /\ (pc \in {"Success", "Exhausted"} /\ posts >= 1) =>
         (sleeps = posts - 1 /\ attempt = posts)
    /\ (pc \in {"Success", "Exhausted"}) => ~ENABLED Sleep

----------------------------------------------------------------------------
(* Properties of merge_transcriptions, stated for SpecMerge *)

NumChunks == Len(chunk_results)

\* Number of segments of the chunks before chunk i
RECURSIVE SegsBefore(_)
SegsBefore(i) ==
    IF i <= 1 THEN 0
    ELSE SegsBefore(i - 1) + Len(chunk_results[i - 1].result.segments)

TotalSegs == SegsBefore(NumChunks + 1)

\* Sum of one usage counter over the inputs, by index
RECURSIVE CounterUpTo(_, _)
CounterUpTo(i, field) ==
    IF i = 0 THEN 0 ELSE CounterUpTo(i - 1, field) + chunk_results[i].usage[field]

\* C7: merging k >= 2 chunks, the merged segment that comes from segment j of
\* chunk i has the chunk-local start and end plus (i-1) * chunk_duration.
C7_MergeOffsetCorrectness ==
    (mpc = "done" /\ NumChunks >= 2) =>
        \A i \in 1..NumChunks :
            \A j \in 1..Len(chunk_results[i].result.segments) :
                LET src == chunk_results[i].result.segments[j]
                    p == SegsBefore(i) + j
                IN /\ p <= Len(merged.result.segments)
                   /\ merged.result.segments[p].start
                        = src.start + (i - 1) * CHUNK_DURATION_SECONDS
                   /\ merged.result.segments[p].end
                        = src.end + (i - 1) * CHUNK_DURATION_SECONDS

\* The scenario: three chunks of two segments; the segment 10..20 of chunk 2
\* comes out as 1410..1420.
C7_Witness ==
    /\ mpc = "done"
    /\ NumChunks = 3
    /\ \A i \in 1..3 : Len(chunk_results[i].result.segments) = 2
    /\ chunk_results[2].result.segments[1].start = 10
    /\ chunk_results[2].result.segments[1].end = 20
    /\ Len(merged.result.segments) = 6
    /\ merged.result.segments[3].start = 1410
    /\ merged.result.segments[3].end = 1420

\* C8: merging k >= 2 chunks gives exactly n_1 + ... + n_k segments and the
\* segment at position p is named seg_p, whatever the input identifiers were.
C8_MergeRenumbering ==
    (mpc = "done" /\ NumChunks >= 2) =>
        /\ Len(merged.result.segments) = TotalSegs
        /\ \A p \in 1..Len(merged.result.segments) :
                merged.result.segments[p].id = "seg_" \o ToString(p)

C8_Witness ==
    /\ mpc = "done"
    /\ NumChunks >= 2
    /\ TotalSegs >= 4
    /\ \A i \in 1..NumChunks :
         \A j \in 1..Len(chunk_results[i].result.segments) :
            chunk_results[i].result.segments[j].id = "x"
    /\ merged.result.segments[4].id = "seg_4"

\* C9: merging k >= 2 chunks, every usage counter of the merged record and of
\* the usage inside the merged payload is the sum of that counter over the
\* inputs.
C9_UsageAdditivity ==
    (mpc = "done" /\ NumChunks >= 2) =>
        \A f \in UsageFields :
            /\ merged.usage[f] = CounterUpTo(NumChunks, f)
            /\ merged.result.usage[f] = CounterUpTo(NumChunks, f)

C9_Witness ==
    /\ mpc = "done"
    /\ NumChunks = 3
    /\ chunk_results[2].usage.total_tokens = 0
    /\ merged.usage.total_tokens = 60
    /\ merged.result.usage.audio_tokens = 30
    /\ merged.result.usage.text_tokens = 10

\* C10: merging exactly one chunk returns that ChunkResult itself: same
\* fields, same segments with their identifiers and timestamps.
C10_MergeIdentity ==
    (mpc = "done" /\ NumChunks = 1) => merged = chunk_results[1]

C10_Witness ==
    /\ mpc = "done"
    /\ NumChunks = 1
    /\ Len(chunk_results[1].result.segments) = 2
    /\ merged.result.segments[2].id = "x"
    /\ merged.result.segments[1].start = 10
    /\ merged.chunk_number = 1

SegmentsOrdered(segments) ==
    \A j \in 1..Len(segments) :
        \A jj \in j..Len(segments) : segments[j].start <= segments[jj].start

\* Every chunk-local start and end lies in [0, chunk_duration]
SegmentsWithin(segments, chunk_duration) ==
    \A j \in 1..Len(segments) :
        /\ 0 <= segments[j].start /\ segments[j].start <= chunk_duration
        /\ 0 <= segments[j].end /\ segments[j].end <= chunk_duration

WellTimedInputs ==
    \A i \in 1..NumChunks :
        /\ SegmentsOrdered(chunk_results[i].result.segments)
        /\ SegmentsWithin(chunk_results[i].result.segments, CHUNK_DURATION_SECONDS)

\* C12: when every ChunkResult has its segments ordered by start and within
\* [0, chunk_duration], the merged starts are non-decreasing and the merged
\* list is the chunks' segment lists one after the other, in chunk order.
C12_GloballyTimeOrdered ==
    (mpc = "done" /\ NumChunks >= 2 /\ WellTimedInputs) =>
        /\ SegmentsOrdered(merged.result.segments)
        /\ Len(merged.result.segments) = TotalSegs
        /\ \A i \in 1..NumChunks :
             \A j \in 1..Len(chunk_results[i].result.segments) :
                LET src == chunk_results[i].result.segments[j]
                    out == merged.result.segments[SegsBefore(i) + j]
                IN /\ out.text = src.text
                   /\ out.speaker = src.speaker
                   /\ out.start >= (i - 1) * CHUNK_DURATION_SECONDS
                   /\ out.start <= i * CHUNK_DURATION_SECONDS

\* Three well-timed chunks, the second one without segments: the merged
\* starts are 10, 30, 2810, 2830.
C12_Witness ==
    /\ mpc = "done"
    /\ NumChunks = 3
    /\ WellTimedInputs
    /\ Len(chunk_results[1].result.segments) = 2
    /\ Len(chunk_results[2].result.segments) = 0
    /\ Len(chunk_results[3].result.segments) = 2
    /\ merged.result.segments[2].start = 30
    /\ merged.result.segments[3].start = 2810
    /\ merged.result.segments[4].text = "w2"

----------------------------------------------------------------------------
(* Properties of the splitter and of the job of one file, stated for SpecJob *)

\* split_audio (or process_deposition in its place) has just fixed the list
\* of chunk files
SplitJustReturned == jpc \in {"returned", "chunks"} /\ ci = 0

\* No ffmpeg call of the split returned non-zero (only process_depositions
\* tells: it drops the window)
NoSegmentationFailure ==
    variant = "pd" => (chunk_files = <<-1>> \/ Len(chunk_files) = wi)

\* floor(T/D)+1 chunks, chunk i cut at window i (start i*D, length D), one
\* ffmpeg call each, in increasing order; consecutive windows leave no gap
\* and no overlap, and the last one reaches beyond T.
ExactWindows ==
    LET D == ChunkDuration(variant) IN
    /\ chunk_files = [i \in 1..((T \div D) + 1) |-> i - 1]
    /\ wi = Len(chunk_files)
    /\ Len(chunk_files) * D > T
    /\ (Len(chunk_files) - 1) * D <= T

\* C13 as stated: for every T > D, with no failed segmentation call, the
\* splitter produces exactly floor(T/D)+1 chunks cut at i*D that cover [0, T).
C13_SplitCompleteness ==
    (SplitJustReturned /\ ~probe_failed /\ NoSegmentationFailure
        /\ T > ChunkDuration(variant))
    => ExactWindows

\* C13, amended: the same for every T above the script's split threshold,
\* which in process_depositions is MAX_DURATION_SECONDS and not the chunk
\* duration.
C13_SplitCompletenessAboveThreshold ==
    (SplitJustReturned /\ ~probe_failed /\ NoSegmentationFailure
        /\ T > SplitThreshold(variant))
    => ExactWindows

\* 2900 s in process_depositions: windows at 0, 1400 and 2800
C13_Witness ==
    /\ variant = "pd"
    /\ T = 2900
    /\ SplitJustReturned
    /\ ~probe_failed
    /\ chunk_files = <<0, 1, 2>>
    /\ wi = 3

\* C14: for every T <= D the splitter returns the source file alone and
\* makes no ffmpeg call.
C14_IdentityFastPath ==
    (SplitJustReturned /\ T <= ChunkDuration(variant)) =>
        /\ chunk_files = <<-1>>
        /\ wi = 0
        /\ num_chunks = 0

\* A source of exactly one chunk duration
C14_Witness ==
    /\ variant = "eastus2"
    /\ T = EASTUS2_CHUNK_DURATION
    /\ SplitJustReturned
    /\ chunk_files = <<-1>>
    /\ wi = 0

\* C15 as stated: once a duration probe of the file has failed, the error
\* has reached the caller, no list of chunk files has been decided, no chunk
\* has been handed to the controller and no record has been written.
C15_ProbeFailureFatal ==
    probe_failed =>
        /\ jpc \in {"failed", "crashed"}
        /\ chunk_files = <<>>
        /\ ci = 0
        /\ posts = 0
        /\ ~saved

ChunkEnded(i) == cstate[i] \in {"Success", "Exhausted"}

\* C19: at most one chunk is with its retry controller, requests are made
\* for that chunk only, chunk i+1 is started only once chunk i has ended
\* (so chunks are started in index order), and the merge starts only when
\* every chunk has ended.
C19_StrictlySequential ==
    /\ Cardinality({i \in DOMAIN cstate : cstate[i] = "running"}) <= 1
    /\ \A i \in DOMAIN cstate :
         cstate[i] = "running" => (i = ci /\ jpc = "transcribing")
    /\ (pc \in {"Attempting", "Sleeping"}) =>
         (jpc = "transcribing" /\ cstate[ci] = "running")
    /\ \A i \in DOMAIN cstate :
         (i > 1 /\ cstate[i] /= "pending") => ChunkEnded(i - 1)
    /\ (mpc /= "idle") => \A i \in DOMAIN cstate : ChunkEnded(i)

C19_Witness ==
    /\ variant = "eastus2"
    /\ cstate = <<"Exhausted", "Success", "running">>
    /\ pc = "Sleeping"
    /\ posts = 2

\* C20: the collected list holds exactly one entry for each chunk whose
\* controller ended in Success, in chunk order, and none for a chunk whose
\* controller ended Exhausted.
C20_OneResultPerSuccess ==
    /\ Len(chunk_results) = Len(collected)
    /\ \A p \in DOMAIN collected :
         \A q \in DOMAIN collected : p < q => collected[p] < collected[q]
    /\ \A i \in DOMAIN cstate :
         (cstate[i] = "Success") <=> (\E p \in DOMAIN collected : collected[p] = i)
    /\ variant = "pd" =>
         \A p \in DOMAIN chunk_results : chunk_results[p].chunk_number = collected[p]

C20_Witness ==
    /\ variant = "eastus2"
    /\ cstate = <<"Success", "Exhausted", "Success">>
    /\ collected = <<1, 3>>
    /\ Len(chunk_results) = 2
    /\ saved

----------------------------------------------------------------------------
(* Properties of the batch driver, stated for SpecBatch *)

\* C16 as stated: a file whose processing fails is recorded as a failed
\* entry and the files after it are still processed. The results list
\* (process_depositions keeps one) has one entry per file handled, in scan
\* order, and the summary's successful and failed counts add up to the number
\* of files; in every script the loop goes on while files are left, and the
\* run ends only when every file has been handled.
C16_BatchFailureIsolation ==
    /\ (variant = "pd") =>
         /\ Len(results) = idx
         /\ \A k \in DOMAIN results : results[k].audio_file = k
         /\ (bpc \in {"summarised", "exited"} /\ audio_files > 0) =>
              /\ summary.total_files = audio_files
              /\ summary.successful = Successful(results)
              /\ summary.successful + summary.failed = audio_files
    /\ (bpc = "files" /\ idx < audio_files) => ENABLED ProcessFile
    /\ (bpc \in {"summarised", "exited"}) => idx = audio_files

\* C17: process_depositions.main returns 0 exactly when at least one file
\* succeeded, and 1 otherwise: no file succeeded, a tool is missing, or the
\* scan failed before any file was processed.
C17_ExitCodePolicy ==
    (variant = "pd") =>
        /\ (bpc = "exited") =>
             /\ exit_code \in {0, 1}
             /\ (exit_code = 0) <=> (\E k \in DOMAIN results : results[k].success)
             /\ (audio_files = 0) => (exit_code = 1 /\ results = <<>>)
        /\ (bpc /= "exited") => exit_code = -1

\* Partial success: one file failed, one succeeded, exit code 0
C17_Witness ==
    /\ variant = "pd"
    /\ bpc = "exited"
    /\ audio_files = 2
    /\ ~results[1].success
    /\ results[2].success
    /\ exit_code = 0


(* Properties of the splitter under failing segmentation calls, SpecJob *)

\* The windows 0 .. n-1 whose ffmpeg call returned zero, in increasing order
ProducedWindows(n) ==
    SelectSeq([i \in 1..n |-> i - 1], LAMBDA w : w \notin seg_failed)

\* C21: when a source is split, ffmpeg is invoked once per window, a window
\* whose invocation returned non-zero is left out of the returned list and
\* the others are still attempted: the list is exactly the successfully
\* produced windows in increasing start order, at most floor(T/D)+1 of them.
C21_SegmentationFailureSkipped ==
    (SplitJustReturned /\ num_chunks > 0)
    => /\ wi = num_chunks
       /\ chunk_files = ProducedWindows(num_chunks)
       /\ Len(chunk_files) <= (T \div ChunkDuration(variant)) + 1

\* C30: for every source that is split, every window for which a chunk file
\* has been requested starts strictly inside the source: i*D < T.
C30_NoEmptyWindow ==
    \A w \in 0..(wi - 1) : w * ChunkDuration(variant) < T

\* C26: in process_deposition, for every chunk file handed to the merger the
\* offset added to its segments is the start w*D of the window w at which
\* split_audio cut it, and the chunk number reported for it is w+1, also
\* when earlier windows were skipped.
C26_OffsetsFollowTrueWindow ==
    (variant = "pd" /\ mpc = "done" /\ num_chunks > 0) =>
        \A p \in 1..Len(chunk_files) :
            LET w == chunk_files[p]
                src == chunk_results[p].result.segments[1]
            IN /\ merged.result.segments[p].start
                    = src.start + w * CHUNK_DURATION_SECONDS
               /\ merged.result.segments[p].end
                    = src.end + w * CHUNK_DURATION_SECONDS
               /\ chunk_results[p].chunk_number = w + 1

(* All-or-nothing persistence of process_deposition, SpecJob *)

\* C29: when the controller of a chunk of a file ends Exhausted, no later
\* chunk of the file is submitted, merge_transcriptions and save_results are
\* not invoked, and the file is recorded with success = False; a record is
\* written only if every chunk of the list produced a ChunkResult.
C29_AllOrNothingPersistence ==
    variant = "pd" =>
        /\ \A i \in 1..Len(cstate) :
              cstate[i] = "Exhausted" =>
                  /\ jpc = "failed"
                  /\ \A j \in (i + 1)..Len(cstate) : cstate[j] = "pending"
                  /\ ci = i
                  /\ pc = "idle"
                  /\ mpc = "idle"
                  /\ merged = <<>>
                  /\ ~saved
                  /\ \A r \in 1..Len(results) : ~results[r].success
        /\ saved =>
              /\ \A i \in 1..Len(cstate) : cstate[i] = "Success"
              /\ Len(chunk_results) = Len(chunk_files)
              /\ collected = [i \in 1..Len(chunk_files) |-> i]

\* The first of three chunks ended Exhausted: the other two were never
\* started and the file is recorded as failed
C29_Witness ==
    /\ variant = "pd"
    /\ Len(chunk_files) = 3
    /\ cstate = <<"Exhausted", "pending", "pending">>
    /\ jpc = "failed"
    /\ posts = 0
    /\ ~saved
    /\ results = <<[audio_file |-> 1, success |-> FALSE]>>

(* The pause between chunks of process_depositions_eastus2.main, SpecJob *)

\* Chunks after which main has slept DELAY_BETWEEN_CHUNKS if it sleeps
\* exactly after the successful chunks that are not the last of the file
SucceededNotLast ==
    {i \in DOMAIN cstate : cstate[i] = "Success" /\ i < Len(cstate)}

\* C23: in process_depositions_eastus2.main an inter-chunk sleep follows the
\* end of a chunk, before the next chunk is started, if and only if the
\* chunk succeeded and is not the last of the file; it is not one of the
\* controller's retry-delay sleeps.
C23_InterChunkThrottle ==
    /\ [](variant = "eastus2" => throttles = Cardinality(SucceededNotLast))
    /\ [][(variant = "eastus2" /\ throttles' /= throttles)
            => /\ throttles' = throttles + 1
               /\ pc = "Success"
               /\ ci < Len(chunk_files)
               /\ cstate'[ci] = "Success"
               /\ cstate'[ci + 1] = "pending"
               /\ ~(sleeps' > sleeps)]_vars
    /\ [][(variant = "eastus2" /\ sleeps' > sleeps)
            => throttles' = throttles]_vars

\* Three chunks: the first succeeded (one pause), the second failed after
\* retry-delay sleeps (no pause), the third is the last (no pause)
C23_Witness ==
    /\ variant = "eastus2"
    /\ cstate = <<"Success", "Exhausted", "Success">>
    /\ throttles = 1
    /\ jpc = "saved"

(* Frame condition of the merger, SpecMerge *)

\* C22: merge_transcriptions changes only start, end and id of a segment:
\* every merged segment has the speaker label, the text and every other
\* field of its source segment, and the list passed in, with its segment
\* records, is left as it was.
C22_MergerFrameCondition ==
    /\ [](mpc = "done" =>
            /\ Len(merged.result.segments) = TotalSegs
            /\ \A i \in 1..NumChunks :
                 \A j \in 1..Len(chunk_results[i].result.segments) :
                    LET src == chunk_results[i].result.segments[j]
                        out == merged.result.segments[SegsBefore(i) + j]
                    IN /\ out.speaker = src.speaker
                       /\ out.text = src.text
                       /\ [out EXCEPT !.start = src.start,
                                      !.end = src.end,
                                      !.id = src.id] = src)
    /\ [][chunk_results' = chunk_results]_vars

\* Three chunks of two segments: the second segment of chunk 2 comes out
\* fourth, rebased and renamed, with its speaker and text
C22_Witness ==
    /\ mpc = "done"
    /\ NumChunks = 3
    /\ \A i \in 1..3 : Len(chunk_results[i].result.segments) = 2
    /\ chunk_results[2].result.segments[2].id = "x"
    /\ chunk_results[2].result.segments[2].speaker = "B"
    /\ merged.result.segments[4].id = "seg_4"
    /\ merged.result.segments[4].speaker = "B"
    /\ merged.result.segments[4].text = chunk_results[2].result.segments[2].text
    /\ merged.result.segments[4].start
         = chunk_results[2].result.segments[2].start + CHUNK_DURATION_SECONDS

(* Bound on the work of one controller call, SpecRetry *)

\* C25: whatever the attempts meet (200, 500, another status, an exception,
\* an unparseable body, a chunk file that cannot be opened), one top-level
\* call of the controller makes at most max_attempts HTTP submissions and,
\* in the recursive variants, is never more than max_attempts calls deep.
C25_TerminationBound ==
    /\ posts <= MaxRetries(variant)
    /\ attempt <= MaxRetries(variant)
    /\ Len(stack) + 1 <= MaxRetries(variant)

(* Properties of the retry scripts' record, stated for SpecRecord *)

\* C27: after a retry script has added chunks to the record written by
\* process_depositions_eastus2.main, the persisted list is in ascending order
\* of chunk index: a retried chunk 3 or 4 comes before the saved chunk 5.
C27_RetryMergeKeepsOrder ==
    (rpc = "written" /\ runs >= 1) =>
        \A p \in 1..Len(record) :
            \A q \in 1..Len(record) :
                p < q => record[p].text <= record[q].text

\* C28: whatever retry script runs are made on a record, every chunk has at
\* most one entry in the persisted list, and the list never has more
\* entries than the source has chunks.
C28_RetryMergeIdempotent ==
    /\ \A p \in 1..Len(record) :
          \A q \in 1..Len(record) :
              p < q => record[p].text /= record[q].text
    /\ Len(record) <= SOURCE_CHUNKS

(* Properties of format_text_output, stated for SpecFormat *)

\* First segments of the maximal runs of adjacent segments with one label
RunStarts ==
    {i \in 1..Len(result_segments) :
        i = 1 \/ SpeakerOf(result_segments[i]) /= SpeakerOf(result_segments[i - 1])}

\* Last segment of the run that starts at s
RunEnd(s) ==
    CHOOSE e \in s..Len(result_segments) :
        /\ \A j \in s..e : SpeakerOf(result_segments[j]) = SpeakerOf(result_segments[s])
        /\ e = Len(result_segments)
             \/ SpeakerOf(result_segments[e + 1]) /= SpeakerOf(result_segments[s])

\* Start of the k-th run
KthStart(k) ==
    CHOOSE s \in RunStarts : Cardinality({t \in RunStarts : t <= s}) = k

\* The stripped texts of segments s..e, one after the other
RECURSIVE ConcatStripped(_, _)
ConcatStripped(s, e) ==
    IF s > e THEN <<>>
    ELSE Strip(result_segments[s].text) \o ConcatStripped(s + 1, e)

\* C24: the speaker-segmented section has exactly one labelled block per
\* maximal run of adjacent segments with the same speaker label, in order,
\* and the text of a block is the concatenation of the stripped texts of
\* exactly the segments of its run, whatever the label (empty or missing
\* included): no segment's text is dropped.
C24_SpeakerGrouping ==
    fpc = "done" =>
        /\ Len(blocks) = Cardinality(RunStarts)
        /\ \A k \in 1..Len(blocks) :
              k <= Cardinality(RunStarts) =>
                 /\ blocks[k].speaker = SpeakerOf(result_segments[KthStart(k)])
                 /\ blocks[k].text = ConcatStripped(KthStart(k), RunEnd(KthStart(k)))

====
